---- MODULE Spec2Model ----
(***************************************************************************)
(* Model of grazer: the deduplicating priority queue (src/queue.go) and    *)
(* the controller that fills and drains it (src/grazer.go).                *)
(*                                                                         *)
(* Go slices are 0-based; a slice is a TLA+ sequence and slice index i is  *)
(* sequence position i + 1.  A *queueItem is a pointer: the heap slice and *)
(* the path index both hold pointers into the item memory "mem".           *)
(***************************************************************************)
EXTENDS Integers, Sequences, FiniteSets, TLC

\* ------------------------------------------------------------------ bounds
\* most route paths passed to one enqueue call, both lists together
MaxListLen == 2
\* enqueue calls per run of the queue specification (caps currentPriority)
MaxEnqueues == 2
\* inbound revalidate requests per run of the controller specification
NumRequests == 2
\* calls of Handler.ShutdownAndWait per run of the controller specification
NumShutdownCalls == 2

\* ------------------------------------------------------------- route paths
\* A route path is a Go string: a sequence of bytes.  The input paths are
\* chosen so that one is a proper prefix of the others and the byte-wise
\* order (<<1>>, <<1, 0, 1>>, <<1, 1>>) is not the order of their lengths.
Paths == { <<1>>, <<1, 0, 1>>, <<1, 1>> }

\* all lists of route paths of length 0..MaxListLen (duplicates allowed)
PathLists == UNION { [1..n -> Paths] : n \in 0..MaxListLen }

\* the nil *string returned by pop on an empty queue: not a string (no byte
\* is negative)
Nil == <<-1>>

\* Go's string comparison a < b: byte-wise lexicographic, a proper prefix
\* sorts first.
StrLess(a, b) ==
    \E i \in 1..(Len(a) + 1) :
        /\ i <= Len(b) + 1
        /\ \A j \in 1..(i - 1) : a[j] = b[j]
        /\ IF i > Len(a) THEN i <= Len(b)
           ELSE i <= Len(b) /\ a[i] < b[i]

\* ------------------------------------------------------------------- state
VARIABLES
    queue,          \* the queue object: [currentPriority, q, pathIdx, mem]
    \* observations of the calls made on the queue (not program state)
    lastCall,       \* the last enqueue / pop call: the paths listed, the result
    drained,        \* paths returned by pop since the last enqueue, in order
    heldAtEnqueue,  \* paths held when the last enqueue returned
    invalidatedIn,  \* per held path: first enqueue call of its queued
                    \* lifetime that listed it as invalidated (0: none)
    lastPopped,     \* the last path pop returned and the priority it had
    \* the controller and the handler (src/grazer.go)
    closed,         \* close(c.sig) has been executed
    wpc,            \* where the goroutine of controller.run stands
    routePaths,     \* the batch the worker is filling or submitting
    cwg,            \* controller.wg counter
    mx,             \* controller.mx: the request holding it, 0 when free
    req,            \* per inbound request: where its handling stands
    hwg,            \* Handler.wg counter
    spc,            \* per call of Handler.ShutdownAndWait: where it stands
    panicked,       \* the runtime panic that ended the process, if any
    revalidateBatchSize,  \* controller.revalidateBatchSize
    status,         \* per inbound request: the response status written
    err,            \* run: Revalidate of this drain iteration returned an error
    \* observations of the controller (not program state)
    lastFetch,      \* the request whose ListDocuments call began last
    closedAt,       \* where the worker stood when c.sig was closed
    startedAfterClose,  \* batches handed to Revalidate since the close
    submitting,     \* Revalidate calls that have begun and not returned
    pending         \* per path: pops by the worker not yet followed by the
                    \* hand-over of a batch holding the path to Revalidate

\* newQueue(): empty heap slice, empty path index, currentPriority zero value
newQueue ==
    [ currentPriority |-> 0,
      q               |-> << >>,
      pathIdx         |-> << >>,
      mem             |-> << >> ]

\* the queueItem behind pointer p
Item(S, p) == S.mem[p]

\* pointer stored in heap slot i (0-based)
At(S, i) == S.q[i + 1]

\* &queueItem{...}: the lowest address not in use
NewPtr(S) ==
    CHOOSE p \in 1..(Cardinality(DOMAIN S.mem) + 1) :
        /\ p \notin DOMAIN S.mem
        /\ \A r \in 1..(p - 1) : r \in DOMAIN S.mem

\* garbage collection: items no longer referenced by the heap slice or the
\* path index are freed
Collect(S) ==
    LET live == { S.q[i] : i \in 1..Len(S.q) }
                \cup { S.pathIdx[k] : k \in DOMAIN S.pathIdx }
    IN  [S EXCEPT !.mem = [p \in live |-> S.mem[p]]]

\* ------------------------------------------------------ heap.Interface impl
\* queueItems.Less with the tie-break reversed
LessTieRev(S, i, j) ==
    LET pi == Item(S, At(S, i)).priority
        pj == Item(S, At(S, j)).priority
    IN  IF pi = pj THEN StrLess(Item(S, At(S, j)).routePath,
                                Item(S, At(S, i)).routePath)
        ELSE IF pi = 0 THEN FALSE
        ELSE IF pj = 0 THEN TRUE
        ELSE pi < pj

\* queueItems.Less without the "sort 0 always last" branches
LessNoZero(S, i, j) ==
    LET pi == Item(S, At(S, i)).priority
        pj == Item(S, At(S, j)).priority
    IN  IF pi = pj THEN StrLess(Item(S, At(S, i)).routePath,
                                Item(S, At(S, j)).routePath)
        ELSE pi < pj

\* queueItems.Less preferring the larger priority value
LessGenRev(S, i, j) ==
    LET pi == Item(S, At(S, i)).priority
        pj == Item(S, At(S, j)).priority
    IN  IF pi = pj THEN StrLess(Item(S, At(S, i)).routePath,
                                Item(S, At(S, j)).routePath)
        ELSE IF pi = 0 THEN FALSE
        ELSE IF pj = 0 THEN TRUE
        ELSE pi > pj

Less(S, i, j) ==
    LET pi == Item(S, At(S, i)).priority
        pj == Item(S, At(S, j)).priority
    IN  IF pi = pj THEN StrLess(Item(S, At(S, i)).routePath,
                                Item(S, At(S, j)).routePath)
        ELSE IF pi = 0 THEN FALSE
        ELSE IF pj = 0 THEN TRUE
        ELSE pi < pj

Swap(S, i, j) ==
    LET a == At(S, i)
        b == At(S, j)
        q1 == [S.q EXCEPT ![i + 1] = b, ![j + 1] = a]
        m1 == [S.mem EXCEPT ![b].index = i]
        m2 == [m1 EXCEPT ![a].index = j]
    IN  [S EXCEPT !.q = q1, !.mem = m2]

\* queueItems.Push: item.index = n; append
Push(S, p) ==
    [S EXCEPT !.mem = [S.mem EXCEPT ![p].index = Len(S.q)],
              !.q   = Append(S.q, p)]

\* queueItems.Pop: take the last slot, item.index = -1, shrink the slice
Pop(S) ==
    LET n == Len(S.q)
        p == S.q[n]
    IN  [ S    |-> [S EXCEPT !.mem = [S.mem EXCEPT ![p].index = -1],
                             !.q   = SubSeq(S.q, 1, n - 1)],
          item |-> p ]

\* ---------------------------------------------------------- container/heap
\* Go's integer division truncates toward zero
GoDiv(a, b) == IF a < 0 THEN -((-a) \div b) ELSE a \div b

RECURSIVE up(_, _)
up(S, j) ==
    LET i == GoDiv(j - 1, 2)
    IN  IF i = j \/ ~Less(S, j, i) THEN S
        ELSE up(Swap(S, i, j), i)

\* the loop of heap.down; yields the heap and the final position i
RECURSIVE downLoop(_, _, _)
downLoop(S, i, n) ==
    LET j1 == 2 * i + 1
    IN  IF j1 >= n \/ j1 < 0 THEN [S |-> S, i |-> i]
        ELSE LET j2 == j1 + 1
                 j  == IF j2 < n /\ Less(S, j2, j1) THEN j2 ELSE j1
             IN  IF ~Less(S, j, i) THEN [S |-> S, i |-> i]
                 ELSE downLoop(Swap(S, i, j), j, n)

down(S, i0, n) ==
    LET r == downLoop(S, i0, n)
    IN  [S |-> r.S, moved |-> r.i > i0]

heapPush(S, p) ==
    LET S1 == Push(S, p)
    IN  up(S1, Len(S1.q) - 1)

heapPop(S) ==
    LET n  == Len(S.q) - 1
        S1 == Swap(S, 0, n)
        S2 == down(S1, 0, n).S
    IN  Pop(S2)

heapFix(S, i) ==
    LET d == down(S, i, Len(S.q))
    IN  IF ~d.moved THEN up(d.S, i) ELSE d.S

\* ------------------------------------------------------------------- queue
\* _addOrUpdate that overwrites any existing priority with a non-zero one
addOrUpdateAlways(S, routePath, prio) ==
    IF routePath \in DOMAIN S.pathIdx
    THEN LET existingItem == S.pathIdx[routePath]
         IN  IF prio # 0
             THEN heapFix([S EXCEPT !.mem[existingItem].priority = prio],
                          Item(S, existingItem).index)
             ELSE S
    ELSE LET item == NewPtr(S)
             S1 == [S EXCEPT !.mem = [p \in DOMAIN S.mem \cup {item} |->
                                IF p = item
                                THEN [priority  |-> prio,
                                      routePath |-> routePath,
                                      index     |-> 0]
                                ELSE S.mem[p]]]
             S2 == heapPush(S1, item)
         IN  [S2 EXCEPT !.pathIdx =
                [k \in DOMAIN S.pathIdx \cup {routePath} |->
                    IF k = routePath THEN item ELSE S.pathIdx[k]]]

\* _addOrUpdate without the existing-item check
addOrUpdateNoCheck(S, routePath, prio) ==
    LET item == NewPtr(S)
        S1 == [S EXCEPT !.mem = [p \in DOMAIN S.mem \cup {item} |->
                           IF p = item
                           THEN [priority  |-> prio,
                                 routePath |-> routePath,
                                 index     |-> 0]
                           ELSE S.mem[p]]]
        S2 == heapPush(S1, item)
    IN  [S2 EXCEPT !.pathIdx =
           [k \in DOMAIN S.pathIdx \cup {routePath} |->
               IF k = routePath THEN item ELSE S.pathIdx[k]]]

_addOrUpdate(S, routePath, prio) ==
    IF routePath \in DOMAIN S.pathIdx
    THEN LET existingItem == S.pathIdx[routePath]
         IN  IF Item(S, existingItem).priority = 0 /\ prio # 0
             THEN heapFix([S EXCEPT !.mem[existingItem].priority = prio],
                          Item(S, existingItem).index)
             ELSE S
    ELSE LET item == NewPtr(S)
             S1 == [S EXCEPT !.mem = [p \in DOMAIN S.mem \cup {item} |->
                                IF p = item
                                THEN [priority  |-> prio,
                                      routePath |-> routePath,
                                      index     |-> 0]
                                ELSE S.mem[p]]]
             S2 == heapPush(S1, item)
         IN  [S2 EXCEPT !.pathIdx =
                [k \in DOMAIN S.pathIdx \cup {routePath} |->
                    IF k = routePath THEN item ELSE S.pathIdx[k]]]

\* for _, routePath := range list { q._addOrUpdate(routePath, prio) }
RECURSIVE addAll(_, _, _)
addAll(S, list, prio) ==
    IF list = << >> THEN S
    ELSE addAll(_addOrUpdate(S, Head(list), prio), Tail(list), prio)

\* enqueue that gives the all-route-paths list the new priority too
enqueueAllPrio(S, invalidatedRoutePaths, allRoutePaths) ==
    LET prio == S.currentPriority + 1
        S1   == [S EXCEPT !.currentPriority = prio]
        S2   == addAll(S1, invalidatedRoutePaths, prio)
    IN  addAll(S2, allRoutePaths, prio)

enqueue(S, invalidatedRoutePaths, allRoutePaths) ==
    LET prio == S.currentPriority + 1
        S1   == [S EXCEPT !.currentPriority = prio]
        S2   == addAll(S1, invalidatedRoutePaths, prio)
    IN  addAll(S2, allRoutePaths, 0)

\* pop that forgets to delete the path index entry
popNoDelete(S) ==
    IF Len(S.q) = 0 THEN [S |-> S, ret |-> Nil]
    ELSE LET r == heapPop(S)
         IN  [S |-> Collect(r.S), ret |-> Item(r.S, r.item).routePath]

\* pop with an off-by-one emptiness test
popOffByOne(S) ==
    IF Len(S.q) <= 1 THEN [S |-> S, ret |-> Nil]
    ELSE LET r    == heapPop(S)
             path == Item(r.S, r.item).routePath
             S1   == [r.S EXCEPT !.pathIdx =
                        [k \in DOMAIN r.S.pathIdx \ {path} |-> r.S.pathIdx[k]]]
         IN  [S |-> Collect(S1), ret |-> path]

pop(S) ==
    IF Len(S.q) = 0 THEN [S |-> S, ret |-> Nil]
    ELSE LET r    == heapPop(S)
             path == Item(r.S, r.item).routePath
             S1   == [r.S EXCEPT !.pathIdx =
                        [k \in DOMAIN r.S.pathIdx \ {path} |-> r.S.pathIdx[k]]]
         IN  [S |-> Collect(S1), ret |-> path]

\* ------------------------------------------------- reading a queue state
Range(f) == { f[x] : x \in DOMAIN f }

\* route paths that have an entry in the heap slice
Held(S) == { Item(S, p).routePath : p \in Range(S.q) }

\* priority of the heap entry of route path k
Prio(S, k) ==
    Item(S, CHOOSE p \in Range(S.q) : Item(S, p).routePath = k).priority

\* how often path k occurs in the list
Occ(list, k) == Cardinality({ i \in 1..Len(list) : list[i] = k })

\* ------------------------------------------------------------ controller
\* the values of HandlerOpts.RevalidateBatchSize the handler is built with:
\* unset (0) and an explicit size
RevalidateBatchSizes == { 0, 2 }

\* NewHandler, lines 47-50: a batch size of 0 becomes 1, any other value is
\* stored as given
NewHandler(RevalidateBatchSize) ==
    IF RevalidateBatchSize = 0 THEN 1 ELSE RevalidateBatchSize

Requests == 1..NumRequests

\* the route paths of the documents a request body names: none (as in
\* InitialRevalidate) or one
invalidatedDocuments == { << >>, << <<1, 1>> >> }

\* the route paths ListDocuments returns: an empty inventory, one document,
\* or all three in an order that is not the queue's
documentsResponse == { << >>, << <<1, 0, 1>> >>, << <<1, 1>>, <<1>>, <<1, 0, 1>> >> }

\* the goroutines that call Handler.ShutdownAndWait
ShutdownCalls == 1..NumShutdownCalls

NoPanic == "none"

\* http.ResponseWriter of a request whose header is not written yet
NoStatus == 0
StatusOK == 200
StatusBadRequest == 400
StatusForbidden == 403

qvars == <<queue, lastCall, drained, heldAtEnqueue, invalidatedIn, lastPopped>>
cvars == <<closed, wpc, routePaths, cwg, mx, req, hwg, spc, panicked,
           revalidateBatchSize, status, err, lastFetch, closedAt,
           startedAfterClose, submitting, pending>>
obsvars == <<lastCall, drained, heldAtEnqueue, invalidatedIn, lastPopped>>
vars == <<queue, lastCall, drained, heldAtEnqueue, invalidatedIn, lastPopped,
          closed, wpc, routePaths, cwg, mx, req, hwg, spc, panicked,
          revalidateBatchSize, status, err, lastFetch, closedAt,
          startedAfterClose, submitting, pending>>

\* NewHandler -> newController: fresh queue, open unbuffered channel sig,
\* wg.Add(1), go ctrl.run(); then the batch size from the options
Init ==
    /\ queue = newQueue
    /\ lastCall = [op |-> "new"]
    /\ drained = << >>
    /\ heldAtEnqueue = {}
    /\ invalidatedIn = [k \in Paths |-> 0]
    /\ lastPopped = [path |-> Nil, prio |-> 0]
    /\ closed = FALSE
    /\ wpc = "loop"
    /\ routePaths = << >>
    /\ cwg = 1
    /\ mx = 0
    /\ req = [r \in Requests |-> "new"]
    /\ hwg = 0
    /\ spc = [c \in ShutdownCalls |-> "idle"]
    /\ panicked = NoPanic
    /\ revalidateBatchSize \in { NewHandler(o) : o \in RevalidateBatchSizes }
    /\ status = [r \in Requests |-> NoStatus]
    /\ err = FALSE
    /\ lastFetch = 0
    /\ closedAt = "open"
    /\ startedAfterClose = 0
    /\ submitting = 0
    /\ pending = [k \in Paths |-> 0]

\* a goroutine panic is not recovered: the process is gone
Running == panicked = NoPanic

\* handleRevalidate with wg.Add(1) ahead of the token and body checks
HandleRevalidateAddFirst(r) ==
    /\ Running
    /\ \A c \in ShutdownCalls : spc[c] = "idle"
    /\ req[r] = "new"
    /\ r > 1 => req[r - 1] # "new"
    /\ \E outcome \in {"forbidden", "badRequest", "spawned"} :
        /\ req' = [req EXCEPT ![r] = outcome]
        /\ hwg' = hwg + 1
        /\ status' = [status EXCEPT ![r] =
                        CASE outcome = "forbidden" -> StatusForbidden
                          [] outcome = "badRequest" -> StatusBadRequest
                          [] OTHER -> NoStatus]
    /\ UNCHANGED <<queue, obsvars, submitting, pending, closed, wpc,
                   routePaths, cwg, mx, spc,
                   panicked, revalidateBatchSize, err, lastFetch, closedAt,
                   startedAfterClose>>

\* handleRevalidate, lines 65-111: wrong token -> 403, undecodable body ->
\* 400, otherwise wg.Add(1) and the revalidation goroutine is started.
\* Requests are numbered in the order they arrive, and they arrive until
\* shutdown begins (cmd/main stops the HTTP server before ShutdownAndWait).
HandleRevalidate(r) ==
    /\ Running
    /\ \A c \in ShutdownCalls : spc[c] = "idle"
    /\ req[r] = "new"
    /\ r > 1 => req[r - 1] # "new"
    /\ \E outcome \in {"forbidden", "badRequest", "spawned"} :
        /\ req' = [req EXCEPT ![r] = outcome]
        /\ hwg' = IF outcome = "spawned" THEN hwg + 1 ELSE hwg
        /\ status' = [status EXCEPT ![r] =
                        CASE outcome = "forbidden" -> StatusForbidden
                          [] outcome = "badRequest" -> StatusBadRequest
                          [] OTHER -> NoStatus]
    /\ UNCHANGED <<queue, obsvars, submitting, pending, closed, wpc,
                   routePaths, cwg, mx, spc,
                   panicked, revalidateBatchSize, err, lastFetch, closedAt,
                   startedAfterClose>>

\* handleRevalidate, line 113: w.WriteHeader(http.StatusOK), after the go
\* statement and concurrently with the goroutine it started
HandleRevalidateOK(r) ==
    /\ Running
    /\ req[r] \notin {"new", "forbidden", "badRequest"}
    /\ status[r] = NoStatus
    /\ status' = [status EXCEPT ![r] = StatusOK]
    /\ UNCHANGED <<queue, obsvars, submitting, pending, closed, wpc,
                   routePaths, cwg, mx, req, hwg,
                   spc, panicked, revalidateBatchSize, err, lastFetch,
                   closedAt, startedAfterClose>>

\* revalidate without c.mx.Lock()
RevalidateNoLock(r) ==
    /\ Running
    /\ req[r] = "spawned"
    /\ mx' = r
    /\ req' = [req EXCEPT ![r] = "fetch"]
    /\ lastFetch' = r
    /\ UNCHANGED <<queue, obsvars, submitting, pending, closed, wpc,
                   routePaths, cwg, hwg, spc,
                   panicked, revalidateBatchSize, status, err, closedAt,
                   startedAfterClose>>

\* revalidate: c.mx.Lock(), then the ListDocuments call is in flight
RevalidateLock(r) ==
    /\ Running
    /\ req[r] = "spawned"
    /\ mx = 0
    /\ mx' = r
    /\ req' = [req EXCEPT ![r] = "fetch"]
    /\ lastFetch' = r
    /\ UNCHANGED <<queue, obsvars, submitting, pending, closed, wpc,
                   routePaths, cwg, hwg, spc,
                   panicked, revalidateBatchSize, status, err, closedAt,
                   startedAfterClose>>

\* revalidate enqueueing the invalidated paths before the fetch, so that a
\* failed fetch leaves them queued
RevalidateFetchFailedEnqueues(r) ==
    /\ Running
    /\ req[r] = "fetch"
    /\ \E invalidatedRoutePaths \in invalidatedDocuments :
        queue' = enqueue(queue, invalidatedRoutePaths, << >>)
    /\ req' = [req EXCEPT ![r] = "failed"]
    /\ mx' = 0
    /\ hwg' = hwg - 1
    /\ UNCHANGED <<obsvars, submitting, pending, closed, wpc, routePaths, cwg,
                   spc, panicked,
                   revalidateBatchSize, status, err, lastFetch, closedAt,
                   startedAfterClose>>

\* revalidate: ListDocuments failed; return the error (deferred Unlock), the
\* goroutine logs it and ends (deferred wg.Done)
RevalidateFetchFailed(r) ==
    /\ Running
    /\ req[r] = "fetch"
    /\ req' = [req EXCEPT ![r] = "failed"]
    /\ mx' = 0
    /\ hwg' = hwg - 1
    /\ UNCHANGED <<queue, obsvars, submitting, pending, closed, wpc,
                   routePaths, cwg, spc, panicked,
                   revalidateBatchSize, status, err, lastFetch, closedAt,
                   startedAfterClose>>

\* revalidate: ListDocuments returned; build both lists and c.queue.enqueue
RevalidateEnqueue(r) ==
    /\ Running
    /\ req[r] = "fetch"
    /\ \E invalidatedRoutePaths \in invalidatedDocuments,
          allRoutePaths \in documentsResponse :
        queue' = enqueue(queue, invalidatedRoutePaths, allRoutePaths)
    /\ req' = [req EXCEPT ![r] = "signal"]
    /\ UNCHANGED <<obsvars, submitting, pending, closed, wpc, routePaths, cwg,
                   mx, hwg, spc,
                   panicked, revalidateBatchSize, status, err, lastFetch,
                   closedAt, startedAfterClose>>

\* ensureProcessQueue: select { case c.sig <- struct{}{}: default: } on the
\* unbuffered channel.  A send on a closed channel panics; otherwise the send
\* case is ready only while the worker is parked in its receive, and the
\* default case is taken in every other situation.  Then revalidate returns
\* (deferred Unlock) and the goroutine ends (deferred wg.Done).
ensureProcessQueue(r) ==
    /\ Running
    /\ req[r] = "signal"
    /\ IF closed
       THEN /\ panicked' = "send on closed channel"
            /\ UNCHANGED <<wpc, req, mx, hwg>>
       ELSE /\ wpc' = IF wpc = "recv" THEN "select" ELSE wpc
            /\ req' = [req EXCEPT ![r] = "done"]
            /\ mx' = 0
            /\ hwg' = hwg - 1
            /\ UNCHANGED panicked
    /\ UNCHANGED <<queue, obsvars, submitting, pending, closed, routePaths,
                   cwg, spc,
                   revalidateBatchSize, status, err, lastFetch, closedAt,
                   startedAfterClose>>

\* run, line 347: the receive on a closed channel returns at once and run
\* returns (deferred wg.Done); on an open channel the goroutine parks
RunReceive ==
    /\ Running
    /\ wpc = "loop"
    /\ IF closed
       THEN wpc' = "returned" /\ cwg' = cwg - 1
       ELSE wpc' = "recv" /\ UNCHANGED cwg
    /\ UNCHANGED <<queue, obsvars, submitting, pending, closed, routePaths,
                   mx, req, hwg, spc,
                   panicked, revalidateBatchSize, status, err, lastFetch,
                   closedAt, startedAfterClose>>

\* run, lines 347-354: the parked receive is released by close(c.sig)
RunReceiveClosed ==
    /\ Running
    /\ wpc = "recv"
    /\ closed
    /\ wpc' = "returned"
    /\ cwg' = cwg - 1
    /\ UNCHANGED <<queue, obsvars, submitting, pending, closed, routePaths,
                   mx, req, hwg, spc,
                   panicked, revalidateBatchSize, status, err, lastFetch,
                   closedAt, startedAfterClose>>

\* the drain loop without its check for a closed channel
RunSelectNoCheck ==
    /\ Running
    /\ wpc = "select"
    /\ wpc' = "popBatch"
    /\ routePaths' = << >>
    /\ err' = FALSE
    /\ UNCHANGED <<queue, obsvars, submitting, pending, closed, cwg, mx, req,
                   hwg, spc, panicked,
                   revalidateBatchSize, status, lastFetch, closedAt,
                   startedAfterClose>>

\* run, lines 356-367: a new iteration of the drain loop (routePaths and err
\* of the previous one are out of scope) and its non-blocking check for a
\* closed channel
RunSelect ==
    /\ Running
    /\ wpc = "select"
    /\ IF closed
       THEN wpc' = "returned" /\ cwg' = cwg - 1
       ELSE wpc' = "popBatch" /\ UNCHANGED cwg
    /\ routePaths' = << >>
    /\ err' = FALSE
    /\ UNCHANGED <<queue, obsvars, submitting, pending, closed, mx, req, hwg,
                   spc, panicked,
                   revalidateBatchSize, status, lastFetch, closedAt,
                   startedAfterClose>>

\* run with "continue" for "break" on an empty batch
RunPopBatchContinue ==
    /\ Running
    /\ wpc = "popBatch"
    /\ LET r == pop(queue)
       IN  /\ queue' = r.S
           /\ IF r.ret = Nil
              THEN /\ wpc' = IF Len(routePaths) = 0 THEN "select" ELSE "revalidate"
                   /\ UNCHANGED routePaths
              ELSE /\ routePaths' = Append(routePaths, r.ret)
                   /\ wpc' = IF Len(routePaths) + 1 = revalidateBatchSize
                             THEN "revalidate" ELSE "popBatch"
    /\ startedAfterClose' =
         IF closed /\ wpc' = "revalidate"
         THEN startedAfterClose + 1 ELSE startedAfterClose
    /\ submitting' = IF wpc' = "revalidate" THEN submitting + 1 ELSE submitting
    /\ pending' =
         [k \in Paths |->
            pending[k] + (IF pop(queue).ret = k THEN 1 ELSE 0)
              - (IF wpc' = "revalidate" THEN Occ(routePaths', k) ELSE 0)]
    /\ UNCHANGED <<obsvars, closed, cwg, mx, req, hwg, spc, panicked,
                   revalidateBatchSize, status, err, lastFetch, closedAt>>

\* queuePopBatch testing the length before the append instead of after it
RunPopBatchOver ==
    /\ Running
    /\ wpc = "popBatch"
    /\ LET r == pop(queue)
       IN  /\ queue' = r.S
           /\ IF r.ret = Nil
              THEN /\ wpc' = IF Len(routePaths) = 0 THEN "loop" ELSE "revalidate"
                   /\ UNCHANGED routePaths
              ELSE /\ routePaths' = Append(routePaths, r.ret)
                   /\ wpc' = IF Len(routePaths) = revalidateBatchSize
                             THEN "revalidate" ELSE "popBatch"
    /\ startedAfterClose' =
         IF closed /\ wpc' = "revalidate"
         THEN startedAfterClose + 1 ELSE startedAfterClose
    /\ submitting' = IF wpc' = "revalidate" THEN submitting + 1 ELSE submitting
    /\ pending' =
         [k \in Paths |->
            pending[k] + (IF pop(queue).ret = k THEN 1 ELSE 0)
              - (IF wpc' = "revalidate" THEN Occ(routePaths', k) ELSE 0)]
    /\ UNCHANGED <<obsvars, closed, cwg, mx, req, hwg, spc, panicked,
                   revalidateBatchSize, status, err, lastFetch, closedAt>>

\* run handing the batch to a new goroutine ("go Revalidate") instead of
\* calling Revalidate itself
RunPopBatchAsync ==
    /\ Running
    /\ wpc = "popBatch"
    /\ LET r == pop(queue)
           full == r.ret # Nil /\ Len(routePaths) + 1 = revalidateBatchSize
           handed == full \/ (r.ret = Nil /\ Len(routePaths) > 0)
       IN  /\ queue' = r.S
           /\ routePaths' = IF r.ret = Nil THEN routePaths
                            ELSE Append(routePaths, r.ret)
           /\ wpc' = IF handed THEN "select"
                     ELSE IF r.ret = Nil THEN "loop" ELSE "popBatch"
           /\ startedAfterClose' =
                IF closed /\ handed
                THEN startedAfterClose + 1 ELSE startedAfterClose
           /\ submitting' = IF handed THEN submitting + 1 ELSE submitting
           /\ pending' =
                [k \in Paths |->
                   pending[k] + (IF r.ret = k THEN 1 ELSE 0)
                     - (IF handed THEN Occ(routePaths', k) ELSE 0)]
    /\ UNCHANGED <<obsvars, closed, cwg, mx, req, hwg, spc, panicked,
                   revalidateBatchSize, status, err, lastFetch, closedAt>>

\* run checking for the closed channel after queuePopBatch too, returning
\* without the Revalidate call
RunPopBatchChecksClose ==
    /\ Running
    /\ wpc = "popBatch"
    /\ LET r == pop(queue)
       IN  /\ queue' = r.S
           /\ IF r.ret = Nil
              THEN /\ wpc' = IF Len(routePaths) = 0 THEN "loop"
                             ELSE IF closed THEN "returned" ELSE "revalidate"
                   /\ UNCHANGED routePaths
              ELSE /\ routePaths' = Append(routePaths, r.ret)
                   /\ wpc' = IF Len(routePaths) + 1 = revalidateBatchSize
                             THEN IF closed THEN "returned" ELSE "revalidate"
                             ELSE "popBatch"
    /\ cwg' = IF wpc' = "returned" THEN cwg - 1 ELSE cwg
    /\ startedAfterClose' =
         IF closed /\ wpc' = "revalidate"
         THEN startedAfterClose + 1 ELSE startedAfterClose
    /\ submitting' = IF wpc' = "revalidate" THEN submitting + 1 ELSE submitting
    /\ pending' =
         [k \in Paths |->
            pending[k] + (IF pop(queue).ret = k THEN 1 ELSE 0)
              - (IF wpc' = "revalidate" THEN Occ(routePaths', k) ELSE 0)]
    /\ UNCHANGED <<obsvars, closed, mx, req, hwg, spc, panicked,
                   revalidateBatchSize, status, err, lastFetch, closedAt>>

\* queuePopBatch: one round of its loop; an empty batch breaks the drain
\* loop, any other batch is handed to Revalidator.Revalidate (line 386)
RunPopBatch ==
    /\ Running
    /\ wpc = "popBatch"
    /\ LET r == pop(queue)
       IN  /\ queue' = r.S
           /\ IF r.ret = Nil
              THEN /\ wpc' = IF Len(routePaths) = 0 THEN "loop" ELSE "revalidate"
                   /\ UNCHANGED routePaths
              ELSE /\ routePaths' = Append(routePaths, r.ret)
                   /\ wpc' = IF Len(routePaths) + 1 = revalidateBatchSize
                             THEN "revalidate" ELSE "popBatch"
    /\ startedAfterClose' =
         IF closed /\ wpc' = "revalidate"
         THEN startedAfterClose + 1 ELSE startedAfterClose
    /\ submitting' = IF wpc' = "revalidate" THEN submitting + 1 ELSE submitting
    /\ pending' =
         [k \in Paths |->
            pending[k] + (IF pop(queue).ret = k THEN 1 ELSE 0)
              - (IF wpc' = "revalidate" THEN Occ(routePaths', k) ELSE 0)]
    /\ UNCHANGED <<obsvars, closed, cwg, mx, req, hwg, spc, panicked,
                   revalidateBatchSize, status, err, lastFetch, closedAt>>

\* run leaving the drain loop ("break") when Revalidate returns an error
RunRevalidateReturnsBreaks ==
    /\ Running
    /\ wpc = "revalidate"
    /\ err' \in BOOLEAN
    /\ submitting' = submitting - 1
    /\ wpc' = IF err' THEN "loop" ELSE "select"
    /\ UNCHANGED <<queue, obsvars, pending, closed, routePaths, cwg, mx, req,
                   hwg, spc, panicked, revalidateBatchSize, status, lastFetch, closedAt,
                   startedAfterClose>>

\* run, lines 386-399: Revalidator.Revalidate returns nil or an error; the
\* error is logged and the drain loop goes on
RunRevalidateReturns ==
    /\ Running
    /\ wpc = "revalidate"
    /\ err' \in BOOLEAN
    /\ submitting' = submitting - 1
    /\ wpc' = "select"
    /\ UNCHANGED <<queue, obsvars, pending, closed, routePaths, cwg, mx, req,
                   hwg, spc, panicked, revalidateBatchSize, status, lastFetch, closedAt,
                   startedAfterClose>>

\* Handler.ShutdownAndWait -> shutdownAndWait: close(c.sig).  cmd/main calls
\* it after http.Server.Shutdown, which waits for the running handlers.  The
\* calls are numbered in the order they start.
ShutdownClose(c) ==
    /\ Running
    /\ spc[c] = "idle"
    /\ c > 1 => spc[c - 1] # "idle"
    /\ \A r \in Requests : req[r] = "new" \/ status[r] # NoStatus
    /\ IF closed
       THEN panicked' = "close of closed channel"
            /\ UNCHANGED <<closed, spc, closedAt>>
       ELSE closed' = TRUE /\ spc' = [spc EXCEPT ![c] = "ctrlWait"]
            /\ closedAt' = wpc
            /\ UNCHANGED panicked
    /\ UNCHANGED <<queue, obsvars, submitting, pending, wpc, routePaths, cwg,
                   mx, req, hwg,
                   revalidateBatchSize, status, err, lastFetch,
                   startedAfterClose>>

\* shutdownAndWait without c.wg.Wait()
ShutdownCtrlNoWait(c) ==
    /\ Running
    /\ spc[c] = "ctrlWait"
    /\ spc' = [spc EXCEPT ![c] = "handlerWait"]
    /\ UNCHANGED <<queue, obsvars, submitting, pending, closed, wpc,
                   routePaths, cwg, mx, req, hwg,
                   panicked, revalidateBatchSize, status, err, lastFetch,
                   closedAt, startedAfterClose>>

\* shutdownAndWait: c.wg.Wait() returns
ShutdownCtrlWaited(c) ==
    /\ Running
    /\ spc[c] = "ctrlWait"
    /\ cwg = 0
    /\ spc' = [spc EXCEPT ![c] = "handlerWait"]
    /\ UNCHANGED <<queue, obsvars, submitting, pending, closed, wpc,
                   routePaths, cwg, mx, req, hwg,
                   panicked, revalidateBatchSize, status, err, lastFetch,
                   closedAt, startedAfterClose>>

\* Handler.ShutdownAndWait without h.wg.Wait()
ShutdownHandlerNoWait(c) ==
    /\ Running
    /\ spc[c] = "handlerWait"
    /\ spc' = [spc EXCEPT ![c] = "done"]
    /\ UNCHANGED <<queue, obsvars, submitting, pending, closed, wpc,
                   routePaths, cwg, mx, req, hwg,
                   panicked, revalidateBatchSize, status, err, lastFetch,
                   closedAt, startedAfterClose>>

\* Handler.ShutdownAndWait: h.wg.Wait() returns
ShutdownHandlerWaited(c) ==
    /\ Running
    /\ spc[c] = "handlerWait"
    /\ hwg = 0
    /\ spc' = [spc EXCEPT ![c] = "done"]
    /\ UNCHANGED <<queue, obsvars, submitting, pending, closed, wpc,
                   routePaths, cwg, mx, req, hwg,
                   panicked, revalidateBatchSize, status, err, lastFetch,
                   closedAt, startedAfterClose>>

Next ==
    \/ \E r \in Requests : HandleRevalidate(r)
    \/ \E r \in Requests : HandleRevalidateOK(r)
    \/ \E r \in Requests : RevalidateLock(r)
    \/ \E r \in Requests : RevalidateFetchFailed(r)
    \/ \E r \in Requests : RevalidateEnqueue(r)
    \/ \E r \in Requests : ensureProcessQueue(r)
    \/ RunReceive
    \/ RunReceiveClosed
    \/ RunSelect
    \/ RunPopBatch
    \/ RunRevalidateReturns
    \/ \E c \in ShutdownCalls : ShutdownClose(c)
    \/ \E c \in ShutdownCalls : ShutdownCtrlWaited(c)
    \/ \E c \in ShutdownCalls : ShutdownHandlerWaited(c)

Spec == Init /\ [][Next]_vars

\* ----------------------------------------------------- queue specification
\* The queue driven directly through its two methods, as queue_test.go does.

\* q.enqueue(invalidatedRoutePaths, allRoutePaths), under q.mx
Enqueue ==
    /\ queue.currentPriority < MaxEnqueues
    /\ \E inv \in PathLists, all \in PathLists :
        /\ Len(inv) + Len(all) <= MaxListLen
        /\ queue' = enqueue(queue, inv, all)
        /\ lastCall' = [op |-> "enqueue", inv |-> Range(inv), all |-> Range(all)]
        /\ invalidatedIn' =
             [k \in Paths |->
                IF k \in Range(inv) /\ invalidatedIn[k] = 0
                THEN queue.currentPriority + 1
                ELSE invalidatedIn[k]]
    /\ drained' = << >>
    /\ heldAtEnqueue' = Held(queue')
    /\ UNCHANGED <<lastPopped, cvars>>

\* q.pop(), under q.mx
PopCall ==
    LET r == pop(queue)
    IN  /\ queue' = r.S
        /\ lastCall' = [op |-> "pop", ret |-> r.ret]
        /\ IF r.ret = Nil
           THEN UNCHANGED <<drained, invalidatedIn, lastPopped>>
           ELSE /\ drained' = Append(drained, r.ret)
                /\ invalidatedIn' = [invalidatedIn EXCEPT ![r.ret] = 0]
                /\ lastPopped' = [path |-> r.ret, prio |-> Prio(queue, r.ret)]
        /\ UNCHANGED <<heldAtEnqueue, cvars>>

QueueNext == Enqueue \/ PopCall

\* q := newQueue(): no handler is built, the controller variables stay as
\* newController leaves them (revalidateBatchSize 1)
QueueInit == Init /\ revalidateBatchSize = 1

QueueSpec == QueueInit /\ [][QueueNext]_vars

\* ------------------------------------------------------------ queue claims
\* which kind of call a step of the queue specification is
EnqueueStep == queue'.currentPriority = queue.currentPriority + 1
PopStep == lastCall'.op = "pop" /\ lastCall'.ret # Nil /\ Len(queue'.q) < Len(queue.q)

\* lexicographic order of two route paths, compared byte by byte from the
\* front
RECURSIVE LexBefore(_, _)
LexBefore(a, b) ==
    IF a = << >> THEN b # << >>
    ELSE IF b = << >> THEN FALSE
    ELSE IF Head(a) # Head(b) THEN Head(a) < Head(b)
    ELSE LexBefore(Tail(a), Tail(b))

\* C1: the queue holds at most one entry per route path, and the path index
\* and the heap contain exactly the same set of route paths (each index entry
\* pointing at the heap entry of its path).
C1_Uniqueness ==
    /\ \A i, j \in 1..Len(queue.q) :
           i # j => Item(queue, queue.q[i]).routePath
                        # Item(queue, queue.q[j]).routePath
    /\ Held(queue) = DOMAIN queue.pathIdx
    /\ \A k \in DOMAIN queue.pathIdx :
           /\ queue.pathIdx[k] \in Range(queue.q)
           /\ Item(queue, queue.pathIdx[k]).routePath = k

\* the queue holds several paths after a pop and a call that listed the
\* popped path in both of its lists
C1_Witness ==
    /\ lastCall.op = "enqueue"
    /\ lastPopped.path \in lastCall.inv \cap lastCall.all
    /\ lastPopped.path \in Held(queue)
    /\ Len(queue.q) >= 2

\* C2: a path queued with a nonzero priority keeps that priority through
\* every later enqueue call; the only change of a queued path's priority is
\* the promotion from 0 to the generation of the promoting call.
C2_PriorityMonotone ==
    [][\A k \in Held(queue) \cap Held(queue') :
          /\ Prio(queue, k) # 0 => Prio(queue', k) = Prio(queue, k)
          /\ Prio(queue', k) # Prio(queue, k) =>
                 /\ EnqueueStep
                 /\ Prio(queue, k) = 0
                 /\ Prio(queue', k) = queue'.currentPriority]_vars

\* a path invalidated again by the last call still has its earlier priority
C2_Witness ==
    /\ lastCall.op = "enqueue"
    /\ \E k \in lastCall.inv \cap lastCall.all :
           /\ k \in Held(queue)
           /\ Prio(queue, k) # 0
           /\ Prio(queue, k) < queue.currentPriority

\* C3: pop never returns a path of priority 0 while a path of nonzero
\* priority is queued.
C3_BacklogLast ==
    [][PopStep /\ Prio(queue, lastCall'.ret) = 0 =>
          \A k \in Held(queue) : Prio(queue, k) = 0]_vars

\* a backlog path is popped once the prioritised paths are gone
C3_Witness ==
    /\ lastCall.op = "pop"
    /\ Len(drained) >= 2
    /\ lastPopped.prio = 0
    /\ queue.currentPriority >= 2
    /\ Len(queue.q) >= 1

\* C4: among the queued paths of nonzero priority pop returns one of the
\* smallest generation, and the priority of every queued path is the number
\* of the first enqueue call of its queued lifetime that invalidated it, so
\* paths invalidated in call N pop before paths first invalidated in a later
\* call M.
C4_GenerationOrder ==
    [][/\ PopStep /\ Prio(queue, lastCall'.ret) # 0 =>
             \A k \in Held(queue) :
                 Prio(queue, k) # 0 =>
                     Prio(queue, lastCall'.ret) <= Prio(queue, k)
       /\ PopStep => \A k \in Held(queue) : Prio(queue, lastCall'.ret) # 0
                                             \/ Prio(queue, k) = 0
       /\ \A k \in Held(queue') : Prio(queue', k) = invalidatedIn'[k]]_vars

\* a path of generation 1 is popped while a path of a later generation waits
C4_Witness ==
    /\ lastCall.op = "pop"
    /\ lastPopped.prio = 1
    /\ \E k \in Held(queue) : Prio(queue, k) > 1
    /\ \E k \in Held(queue) : Prio(queue, k) = 0

\* C5: among queued paths of equal priority pop returns the
\* lexicographically smallest.
C5_TieBreak ==
    [][PopStep =>
          \A k \in Held(queue) :
              Prio(queue, k) = Prio(queue, lastCall'.ret) =>
                  k = lastCall'.ret \/ LexBefore(lastCall'.ret, k)]_vars

\* a path was popped ahead of two others of the same priority
C5_Witness ==
    /\ lastCall.op = "pop"
    /\ Cardinality({ k \in Held(queue) : Prio(queue, k) = lastPopped.prio }) >= 2

\* repeated pop from queue state S: the returned paths, in order
RECURSIVE DrainAll(_)
DrainAll(S) ==
    LET r == pop(S)
    IN  IF r.ret = Nil THEN << >> ELSE <<r.ret>> \o DrainAll(r.S)

\* queue state S after Len(S.q) pops
RECURSIVE AfterPops(_, _)
AfterPops(S, n) == IF n = 0 THEN S ELSE AfterPops(pop(S).S, n - 1)

\* C6: popping repeatedly from any queue state returns each held path exactly
\* once and then nil; a drain that ended with nil returned exactly the paths
\* held when it began.
C6_DrainComplete ==
    /\ LET d == DrainAll(queue)
       IN  /\ Range(d) = Held(queue)
           /\ Len(d) = Cardinality(Held(queue))
           /\ pop(AfterPops(queue, Len(d))).ret = Nil
    /\ Range(drained) \cup Held(queue) = heldAtEnqueue
    /\ Range(drained) \cap Held(queue) = {}
    /\ Len(drained) = Cardinality(Range(drained))
    /\ lastCall.op = "pop" /\ lastCall.ret = Nil =>
           /\ Range(drained) = heldAtEnqueue
           /\ Len(drained) = Cardinality(heldAtEnqueue)

\* a full queue was drained until pop returned nil
C6_Witness ==
    /\ lastCall.op = "pop" /\ lastCall.ret = Nil
    /\ Len(drained) = Cardinality(Paths)

\* C7: an enqueue call with generation g gives g to every invalidated path
\* that was absent or queued with priority 0, inserts every absent path that
\* is only in the background list with priority 0, and leaves every other
\* queued entry as it was.
C7_EnqueueEffect ==
    [][EnqueueStep =>
          LET g   == queue'.currentPriority
              inv == lastCall'.inv
              all == lastCall'.all
          IN  /\ \A k \in inv :
                     k \notin Held(queue) \/ Prio(queue, k) = 0 =>
                         k \in Held(queue') /\ Prio(queue', k) = g
              /\ \A k \in all \ inv :
                     k \notin Held(queue) =>
                         k \in Held(queue') /\ Prio(queue', k) = 0
              /\ \A k \in all \ inv :
                     k \in Held(queue) =>
                         k \in Held(queue') /\ Prio(queue', k) = Prio(queue, k)
              /\ \A k \in inv :
                     k \in Held(queue) /\ Prio(queue, k) # 0 =>
                         k \in Held(queue') /\ Prio(queue', k) = Prio(queue, k)
              /\ \A k \in Paths \ (inv \cup all) :
                     /\ k \in Held(queue') <=> k \in Held(queue)
                     /\ k \in Held(queue) => Prio(queue', k) = Prio(queue, k)
              /\ Held(queue') \subseteq Paths]_vars

\* the last call listed a path in both lists and it holds the call's generation
C7_Witness ==
    /\ lastCall.op = "enqueue"
    /\ queue.currentPriority >= 2
    /\ \E k \in lastCall.inv \cap lastCall.all :
           k \in Held(queue) /\ Prio(queue, k) = queue.currentPriority

\* C8: pop leaves no trace of the returned path in the queue; an enqueue that
\* lists an absent path inserts it with the call's generation (invalidated)
\* or 0 (background only); a path popped at generation p and invalidated
\* again sorts after the paths still queued at generation p.
C8_ReAdd ==
    [][/\ PopStep =>
             /\ lastCall'.ret \notin Held(queue')
             /\ lastCall'.ret \notin DOMAIN queue'.pathIdx
             /\ \A p \in DOMAIN queue'.mem :
                    Item(queue', p).routePath # lastCall'.ret
       /\ EnqueueStep /\ lastPopped.path # Nil
            /\ lastPopped.path \notin Held(queue) =>
             LET k == lastPopped.path
             IN  /\ k \in lastCall'.inv =>
                        /\ k \in Held(queue')
                        /\ Prio(queue', k) = queue'.currentPriority
                        /\ lastPopped.prio # 0 =>
                               /\ Prio(queue', k) # lastPopped.prio
                               /\ \A j \in Held(queue') :
                                      Prio(queue', j) = lastPopped.prio =>
                                          Prio(queue', j) < Prio(queue', k)
                 /\ k \in lastCall'.all \ lastCall'.inv =>
                        k \in Held(queue') /\ Prio(queue', k) = 0
                 /\ k \notin lastCall'.inv \cup lastCall'.all =>
                        k \notin Held(queue')]_vars

\* a path popped at generation 1 is queued again with a later generation
\* while another path is still queued at generation 1
C8_Witness ==
    /\ lastCall.op = "enqueue"
    /\ lastPopped.path \in lastCall.inv
    /\ lastPopped.prio = 1
    /\ lastPopped.path \in Held(queue)
    /\ Prio(queue, lastPopped.path) = queue.currentPriority
    /\ \E j \in Held(queue) : Prio(queue, j) = 1

\* ------------------------------------------------------- controller claims
\* C9: no lost wake.  Once a reconciliation has enqueued and signalled, the
\* worker is never left parked in its receive while the queue holds paths: a
\* worker parked with a non-empty queue always has a signal still to come
\* from a reconciliation that has enqueued but not yet signalled.
C9_NoLostWake ==
    wpc = "recv" /\ ~closed /\ Len(queue.q) > 0 =>
        \E r \in Requests : req[r] = "signal"

\* C10: a wake signal sent after close(c.sig) is a no-op and puts the program
\* in no crash state.
C10_SignalAfterShutdownNoOp ==
    panicked # "send on closed channel"

\* C11: shutdown is idempotent.  A second call of Handler.ShutdownAndWait,
\* made after or during the first, raises no error: it never ends the
\* process with the runtime panic of closing the closed signal channel.
C11_ShutdownIdempotent ==
    panicked # "close of closed channel"

\* where controller.shutdownAndWait of call c has returned
CtrlShutdownReturned(c) == spc[c] \in {"handlerWait", "done"}

\* C12: controller.shutdownAndWait returns only after the worker loop has
\* exited.  From its return on the worker stays exited, so no batch
\* submission is in flight or starts, and no queued path is popped: paths
\* still queued stay queued.
C12_ShutdownWaitCoversSubmission ==
    [][ (\E c \in ShutdownCalls : CtrlShutdownReturned(c)) =>
           /\ wpc = "returned"
           /\ wpc' = "returned"
           /\ routePaths' = routePaths
           /\ Held(queue) \subseteq Held(queue') ]_vars

\* shutdown began while a batch was in flight; shutdownAndWait has returned,
\* the worker has exited and paths are left in the queue
C12_Witness ==
    /\ CtrlShutdownReturned(1)
    /\ closedAt = "revalidate"
    /\ wpc = "returned"
    /\ Len(queue.q) > 0

\* C13 as stated: once c.sig is closed the worker hands no batch to
\* Revalidate that was not already in flight at the close.
C13_NoNewBatchAfterShutdown ==
    startedAfterClose = 0

\* C13, amended: once c.sig is closed the worker hands at most one more batch
\* to Revalidate, and only when the close came while it was inside
\* queuePopBatch, past the closed-channel check of that drain iteration.  A
\* close during an in-flight submission, or at any other point, is followed
\* by no further batch.
C13_AtMostTheCheckedBatch ==
    /\ startedAfterClose <= 1
    /\ startedAfterClose = 1 => closedAt = "popBatch"

\* the close came while the worker filled a batch: that batch was submitted,
\* the worker then exited and the remaining paths were never submitted
C13_Witness ==
    /\ closedAt = "popBatch"
    /\ startedAfterClose = 1
    /\ wpc = "returned"
    /\ Len(queue.q) > 0

\* the reconciliation goroutine of request r is running
TaskRunning(r) == req[r] \in {"spawned", "fetch", "signal"}

\* C14: Handler.ShutdownAndWait has returned only when the worker loop has
\* stopped and every reconciliation goroutine that was started has ended,
\* with or without an error.
C14_HandlerShutdownWaitsForTasks ==
    \A c \in ShutdownCalls :
        spc[c] = "done" =>
            /\ wpc = "returned"
            /\ \A r \in Requests : ~TaskRunning(r)

\* ShutdownAndWait has returned after one reconciliation ended normally and
\* another ended with a fetch error
C14_Witness ==
    /\ spc[1] = "done"
    /\ \E r1, r2 \in Requests : req[r1] = "done" /\ req[r2] = "failed"

\* C15: a failed inventory fetch is all-or-nothing.  The step in which
\* revalidate returns the error leaves the queue (contents, priorities,
\* generation counter) as it was, wakes no worker, releases the lock the
\* request held, and the request takes no further step: nothing of it is
\* enqueued or retried.
C15_FetchFailureAllOrNothing ==
    [][ \A r \in Requests :
          /\ req[r] = "fetch" /\ req'[r] = "failed" =>
                /\ queue' = queue
                /\ wpc' = wpc
                /\ mx = r /\ mx' = 0
                /\ panicked' = panicked
          /\ req[r] = "failed" =>
                /\ req'[r] = "failed"
                /\ queue'.currentPriority # queue.currentPriority =>
                       \E r2 \in Requests \ {r} :
                           req[r2] = "fetch" /\ req'[r2] = "signal" ]_vars

\* a request has failed in its fetch while paths of an earlier reconciliation
\* are queued, and the lock is free again
C15_Witness ==
    /\ \E r \in Requests : req[r] = "failed"
    /\ mx = 0
    /\ Len(queue.q) > 0
    /\ queue.currentPriority = 1

\* the reconciliations between the start of ListDocuments and the end of
\* ensureProcessQueue
InFlight == { r \in Requests : req[r] \in {"fetch", "signal"} }

\* the reconciliations whose enqueue call has been made
Enqueued == { r \in Requests : req[r] \in {"signal", "done"} }

\* what C16 says of every state
Serialized ==
    /\ Cardinality(InFlight) <= 1
    /\ \A r \in InFlight : mx = r /\ lastFetch = r
    /\ queue.currentPriority = Cardinality(Enqueued)
    /\ mx # 0 => mx \in InFlight

\* C16: reconciliations are strictly serialized.  At most one is between the
\* start of its fetch and the end of its enqueue and wake, and it holds the
\* lock; the one in flight is the one whose fetch began last, so an enqueue
\* is always made by the latest fetcher and enqueues follow the order of the
\* fetches; every reconciliation that got past its fetch made its own
\* enqueue call (one generation each: none dropped, none coalesced).  A
\* started request stays started until it begins its own fetch, which it
\* does only once the lock is free, and a fetch ends in that request's own
\* enqueue or in its own failure.
C16_ReconciliationsSerialized ==
    [][ /\ Serialized /\ Serialized'
        /\ \A r \in Requests :
              /\ req[r] = "spawned" =>
                    /\ req'[r] \in {"spawned", "fetch"}
                    /\ req'[r] = "fetch" => mx = 0 /\ InFlight = {}
              /\ req[r] = "fetch" => req'[r] \in {"fetch", "signal", "failed"}
              /\ req[r] = "fetch" /\ req'[r] = "signal" =>
                    /\ lastFetch = r
                    /\ queue'.currentPriority = queue.currentPriority + 1 ]_vars

\* one reconciliation has completed, a second one has then run its own fetch
\* and enqueue, and a third request, if any, waits for the lock
C16_Witness ==
    \E r1, r2 \in Requests :
        /\ r1 # r2
        /\ req[r1] = "done"
        /\ req[r2] = "signal"
        /\ queue.currentPriority = 2

\* C17: pop on an empty queue returns nil and leaves the queue, the path
\* index and the generation counter as they are; queuePopBatch stops at the
\* nil, and the worker then submits the paths it already holds or, holding
\* none, ends the drain pass and goes back to wait for a signal.
C17_PopOnEmpty ==
    [][ /\ Len(queue.q) = 0 => pop(queue) = [S |-> queue, ret |-> Nil]
        /\ wpc = "popBatch" /\ Len(queue.q) = 0 /\ wpc' # wpc =>
              /\ queue' = queue
              /\ routePaths' = routePaths
              /\ wpc' = IF Len(routePaths) = 0 THEN "loop" ELSE "revalidate"
              /\ cwg' = cwg ]_vars

\* a batch of size two was cut short by a nil pop and is being submitted
C17_Witness ==
    /\ wpc = "revalidate"
    /\ revalidateBatchSize = 2
    /\ Len(routePaths) = 1
    /\ Len(queue.q) = 0
    /\ queue.currentPriority = 1

\* an inbound request that was refused
Rejected(r) == req[r] \in {"forbidden", "badRequest"}

\* C18 as stated (second half): a request that passed both checks is
\* acknowledged before its reconciliation has an outcome.
C18_AcknowledgedBeforeReconciliation ==
    \A r \in Requests : req[r] \in {"done", "failed"} => status[r] = StatusOK

\* C18, amended: a request that fails authentication or decoding is answered
\* 403 or 400 in a step that starts no goroutine, takes no lock, begins no
\* fetch and leaves queue and worker untouched, and it never takes another
\* step.  A request that passed both is answered 200 by the handler itself,
\* after the reconciliation goroutine was started and whatever stage that
\* goroutine has reached by then (possibly its end); the reconciliation
\* never changes the answer.
C18_RejectedNeverReachesCore ==
    [][ \A r \in Requests :
          /\ req[r] = "new" /\ Rejected(r)' =>
                /\ status'[r] \in {StatusForbidden, StatusBadRequest}
                /\ queue' = queue
                /\ hwg' = hwg /\ mx' = mx /\ lastFetch' = lastFetch
                /\ wpc' = wpc /\ panicked' = panicked
          /\ Rejected(r) => req'[r] = req[r] /\ status'[r] = status[r]
          /\ req[r] = "new" /\ ~Rejected(r)' /\ req'[r] # "new" =>
                req'[r] = "spawned" /\ status'[r] = NoStatus /\ hwg' = hwg + 1
          /\ req[r] # "new" /\ ~Rejected(r) =>
                /\ status'[r] \in {status[r], StatusOK}
                /\ status[r] = StatusOK => status'[r] = StatusOK
                /\ status'[r] # status[r] => req'[r] = req[r] ]_vars

\* one request was refused with 403, another was answered 200 and its
\* reconciliation failed
C18_Witness ==
    \E r1, r2 \in Requests :
        /\ req[r1] = "forbidden" /\ status[r1] = StatusForbidden
        /\ req[r2] = "failed" /\ status[r2] = StatusOK

\* C19: batch bound.  The batch size is at least 1 (an option of 0 became
\* 1).  Every batch handed to Revalidate is non-empty and holds at most
\* revalidateBatchSize paths; it is built by appending each path pop
\* returns, in that order, and is not altered while it is submitted; it is
\* shorter than revalidateBatchSize only when the pop that ended it found
\* the queue empty.
C19_BatchBound ==
    [][ /\ revalidateBatchSize >= 1
        /\ revalidateBatchSize \in { NewHandler(o) : o \in RevalidateBatchSizes }
        /\ NewHandler(0) = 1
        /\ wpc = "popBatch" /\ wpc' = "revalidate" =>
              /\ Len(routePaths') >= 1
              /\ Len(routePaths') <= revalidateBatchSize
              /\ Len(routePaths') < revalidateBatchSize =>
                    Len(queue.q) = 0 /\ Len(queue'.q) = 0
        /\ wpc = "popBatch" /\ routePaths' # routePaths =>
              /\ Len(queue.q) > 0
              /\ routePaths' = Append(routePaths, pop(queue).ret)
              /\ Len(routePaths') <= revalidateBatchSize
        /\ wpc = "revalidate" => routePaths' = routePaths ]_vars

\* a full batch of two is being submitted while more paths are queued
C19_Witness ==
    /\ wpc = "revalidate"
    /\ revalidateBatchSize = 2
    /\ Len(routePaths) = 2
    /\ Len(queue.q) > 0

\* C20: a failed batch submission neither stops the worker nor requeues the
\* batch.  The step in which Revalidate returns an error leaves the queue as
\* it is and takes the worker to the next iteration of the same drain loop,
\* where, unless shutdown was requested, it pops the next batch; a path
\* enters the queue only by the enqueue call of a reconciliation.
C20_FailedBatchNotRequeued ==
    [][ /\ wpc = "revalidate" /\ wpc' # wpc /\ err' =>
              /\ wpc' = "select"
              /\ queue' = queue
              /\ cwg' = cwg /\ panicked' = panicked
        /\ wpc = "select" /\ err /\ wpc' # wpc =>
              wpc' = IF closed THEN "returned" ELSE "popBatch"
        /\ Held(queue') \ Held(queue) # {} =>
              \E r \in Requests : req[r] = "fetch" /\ req'[r] = "signal" ]_vars

\* a batch has failed, its paths are not in the queue, and the worker stands
\* before the next batch of the same drain pass with paths still queued
C20_Witness ==
    /\ wpc = "select"
    /\ err
    /\ ~closed
    /\ Len(queue.q) > 0
    /\ Range(routePaths) \cap Held(queue) = {}

\* a step of the goroutine of controller.run
WorkerStep ==
    RunReceive \/ RunReceiveClosed \/ RunSelect \/ RunPopBatch
        \/ RunRevalidateReturns

\* C21: shutdown terminates.  Once c.sig is closed, a worker that has not yet
\* returned from run can always take its next step (its receive, its check
\* between batches, its pop, the return of the Revalidate call in flight),
\* so that it reaches the end of run; and once it has, the c.wg.Wait() of
\* shutdownAndWait can return.  Nothing leaves the program stuck short of
\* that.
C21_ShutdownTerminates ==
    /\ closed /\ wpc # "returned" => ENABLED WorkerStep
    /\ \A c \in ShutdownCalls :
          spc[c] = "ctrlWait" /\ wpc = "returned" => ENABLED ShutdownCtrlWaited(c)

\* C22: outbound submissions are serialized.  At most one Revalidate call is
\* in progress in any state, whatever reconciliations, signals and shutdown
\* calls have happened; it is the call of the one goroutine of run, which
\* newController starts once and which is counted in c.wg until it returns.
C22_SubmissionsSerialized ==
    /\ submitting \in {0, 1}
    /\ submitting = 1 <=> wpc = "revalidate"
    /\ cwg \in {0, 1}
    /\ cwg = 0 <=> wpc = "returned"

\* a batch is being submitted after c.sig was closed, while a reconciliation
\* is in its fetch
C22_Witness ==
    /\ submitting = 1
    /\ closed
    /\ \E r \in Requests : req[r] = "fetch"

\* what C23 says of every state: the paths popped and not yet handed over
\* are those of the batch being filled, and there are none once the batch
\* was handed to Revalidate or the worker waits or has returned
NoKeyDropped ==
    \A k \in Paths :
        pending[k] = IF wpc = "popBatch" THEN Occ(routePaths, k) ELSE 0

\* C23: no path is popped and then dropped.  A path leaves the queue only by
\* a pop of the worker, which puts it in the batch being filled; every path
\* popped is handed to Revalidate exactly once, in the batch it was popped
\* into, also when c.sig is closed meanwhile; the batch is given up only
\* after it was handed over.
C23_NoKeyDropped ==
    [][ /\ NoKeyDropped /\ NoKeyDropped'
        /\ Len(queue'.q) < Len(queue.q) =>
              /\ wpc = "popBatch"
              /\ routePaths' = Append(routePaths, pop(queue).ret)
        /\ routePaths' # routePaths /\ wpc # "popBatch" =>
              /\ routePaths' = << >>
              /\ \A k \in Paths : pending[k] = 0 ]_vars

\* c.sig was closed while the worker filled a batch of two; the batch,
\* completed after the close, is being submitted
C23_Witness ==
    /\ closedAt = "popBatch"
    /\ wpc = "revalidate"
    /\ Len(routePaths) = 2
    /\ \A k \in Paths : pending[k] = 0

\* queue states S1 and S2 hold the same paths with the same priorities and
\* are drained in the same order
SameContents(S1, S2) ==
    /\ Held(S1) = Held(S2)
    /\ \A k \in Held(S1) : Prio(S1, k) = Prio(S2, k)
    /\ DrainAll(S1) = DrainAll(S2)

\* the lists of route paths that name exactly the paths in set ps
ListsOf(ps) == { l \in PathLists : Range(l) = ps }

\* from queue state S, left by an enqueue call that listed the paths invs
\* and alls, a second call with the same arguments (in any order of
\* listing) changes the generation counter and nothing else
SecondCallSame(S, invs, alls) ==
    \A inv \in ListsOf(invs), all \in ListsOf(alls) :
        LET S2 == enqueue(S, inv, all)
        IN  /\ SameContents(S, S2)
            /\ S2.currentPriority = S.currentPriority + 1

\* C24: enqueue is idempotent on the queue contents.  In every state left by
\* an enqueue call, from whatever queue state that call was made, a second
\* call with the same arguments leaves the paths, their priorities and the
\* order in which pop returns them as the first call left them, the
\* generation counter being one higher.
C24_EnqueueIdempotent ==
    lastCall.op = "enqueue" =>
        SecondCallSame(queue, lastCall.inv, lastCall.all)

\* the second of two enqueue calls with the same lists, which name an
\* invalidated path and another path for the background, has returned
C24_Witness ==
    /\ lastCall.op = "enqueue"
    /\ queue.currentPriority = 2
    /\ lastCall.inv # {}
    /\ lastCall.all \ lastCall.inv # {}
    /\ \E inv \in PathLists, all \in PathLists :
          /\ Range(inv) = lastCall.inv
          /\ Range(all) = lastCall.all
          /\ queue = enqueue(enqueue(newQueue, inv, all), inv, all)

====
